---- MODULE Spec2Model ----
(***************************************************************************)
(* A model of Ruskey, a tree-walking interpreter for the Monkey language:  *)
(* lexer, Pratt parser, AST printing, object model, environment, evaluator *)
(* and the REPL loop.  Rust Strings are TLA+ strings; the n-th byte of a   *)
(* string s (0-based) is SubSeq(s, n+1, n+1).  The recursive functions of  *)
(* the source are RECURSIVE operators that return the values the source    *)
(* returns together with the state they changed through &mut.              *)
(***************************************************************************)
EXTENDS Integers, Sequences, FiniteSets, TLC

VARIABLES
    input,      \* the source text given to Lexer::new
    shape,      \* how the input was built (read by the properties only)
    pc,         \* where the host is: "source", "parsed", "done", "prompt", "eof"
    program,    \* the Program parse_program returned
    errors,     \* parser.errors()
    outcome,    \* the value eval returned
    env,        \* the host's Environment
    trace,      \* the statements the last eval entered and left
    output,     \* REPL: the strings written to the output so far
    bound,      \* REPL: the value of the last let of each name (properties only)
    nlines,     \* REPL: the lines read so far
    lex,        \* a Lexer a host holds and calls next_token on
    tokens,     \* the Tokens lex has returned
    parser      \* a Parser in the statement loop of parse_program or of a block

vars == <<input, shape, pc, program, errors, outcome, env, trace, output, bound, nlines,
          lex, tokens, parser>>

\* The element of a set of one element.  The({e(x) : x \in {v}}) is e for x the
\* value of v: the way this module names the result of a call that is used
\* more than once.  The binding stands on the last line, after the expression.
The(S) == CHOOSE v \in S : TRUE

(***************************************************************************)
(* token.rs                                                                *)
(***************************************************************************)
Token_new(token_type, literal) == [token_type |-> token_type, literal |-> literal]

lookup_ident(ident) ==
    CASE ident = "fn" -> "Function"
      [] ident = "let" -> "Let"
      [] ident = "true" -> "True"
      [] ident = "false" -> "False"
      [] ident = "if" -> "If"
      [] ident = "else" -> "Else"
      [] ident = "return" -> "Return"
      [] OTHER -> "Ident"

(***************************************************************************)
(* lexer.rs                                                                *)
(***************************************************************************)
\* The value read_char stores in ch at the end of the input (the byte 0).
NUL == "NUL"

AsciiAlphabetic ==
    {"a", "b", "c", "d", "e", "f", "g", "h", "i", "j", "k", "l", "m",
     "n", "o", "p", "q", "r", "s", "t", "u", "v", "w", "x", "y", "z",
     "A", "B", "C", "D", "E", "F", "G", "H", "I", "J", "K", "L", "M",
     "N", "O", "P", "Q", "R", "S", "T", "U", "V", "W", "X", "Y", "Z"}

AsciiDigit == {"0", "1", "2", "3", "4", "5", "6", "7", "8", "9"}

AsciiWhitespace == {" ", "\t", "\n", "\f", "\r"}

is_digit(ch) == ch \in AsciiDigit \/ ch = "_"

is_letter(ch) == ch \in AsciiAlphabetic \/ ch = "_"

\* input.as_bytes()[i]
ByteAt(s, i) == SubSeq(s, i + 1, i + 1)

\* &input[from..to]
Slice(s, from, to) == SubSeq(s, from + 1, to)

\* read_char as it would be if, past the last byte, it set read_position
\* back to the start of the input.
read_char_starting_over(l) ==
    [l EXCEPT !.ch = IF l.read_position >= Len(l.input)
                        THEN NUL
                        ELSE ByteAt(l.input, l.read_position),
              !.position = l.read_position,
              !.read_position = IF l.read_position >= Len(l.input)
                                   THEN 0
                                   ELSE l.read_position + 1]

read_char(l) ==
    [l EXCEPT !.ch = IF l.read_position >= Len(l.input)
                        THEN NUL
                        ELSE ByteAt(l.input, l.read_position),
              !.position = l.read_position,
              !.read_position = l.read_position + 1]

peek_char(l) ==
    IF l.read_position >= Len(l.input) THEN NUL ELSE ByteAt(l.input, l.read_position)

Lexer_new(source) ==
    read_char([input |-> source, position |-> 0, read_position |-> 0, ch |-> NUL])

RECURSIVE skip_whitespace(_)
skip_whitespace(l) ==
    IF l.ch \in AsciiWhitespace THEN skip_whitespace(read_char(l)) ELSE l

\* The loops of read_identifier and read_numbers: the lexer after the run.
RECURSIVE read_identifier_loop(_)
read_identifier_loop(l) ==
    IF l.position < Len(l.input) /\ is_letter(l.ch)
        THEN read_identifier_loop(read_char(l))
        ELSE l

read_identifier(l) ==
    LET after == read_identifier_loop(l)
    IN  [literal |-> Slice(l.input, l.position, after.position), lexer |-> after]

RECURSIVE read_numbers_loop(_)
read_numbers_loop(l) ==
    IF l.position < Len(l.input) /\ is_digit(l.ch)
        THEN read_numbers_loop(read_char(l))
        ELSE l

read_numbers(l) ==
    LET after == read_numbers_loop(l)
    IN  [literal |-> Slice(l.input, l.position, after.position), lexer |-> after]

RECURSIVE read_string_loop(_)
read_string_loop(l) ==
    LET next == read_char(l)
    IN  IF next.ch = "\"" \/ next.ch = NUL THEN next ELSE read_string_loop(next)

read_string(l) ==
    LET after == read_string_loop(l)
    IN  [literal |-> Slice(l.input, l.position + 1, after.position), lexer |-> after]

SingleCharTokens ==
    [c \in {"+", "-", "/", "*", "<", ">", "(", ")", "{", "}", ",", ";"} |->
        CASE c = "+" -> "Plus"
          [] c = "-" -> "Minus"
          [] c = "/" -> "Slash"
          [] c = "*" -> "Asterisk"
          [] c = "<" -> "Lt"
          [] c = ">" -> "Gt"
          [] c = "(" -> "Lparen"
          [] c = ")" -> "Rparen"
          [] c = "{" -> "Lbrace"
          [] c = "}" -> "Rbrace"
          [] c = "," -> "Comma"
          [] c = ";" -> "Semicolon"]

\* Lexer::next_token: the token and the lexer after it.
Lexer_next_token(l0) ==
    LET l == skip_whitespace(l0)
        Step(tok, lx) == [tok |-> tok, lexer |-> read_char(lx)]
    IN  CASE l.ch = "\"" ->
               LET s == read_string(l)
               IN  Step(Token_new("String", s.literal), s.lexer)
          [] l.ch = "=" ->
               IF peek_char(l) = "="
                   THEN LET l2 == read_char(l)
                        IN  Step(Token_new("Eq", l.ch \o l2.ch), l2)
                   ELSE Step(Token_new("Assign", "="), l)
          [] l.ch = "!" ->
               IF peek_char(l) = "="
                   THEN LET l2 == read_char(l)
                        IN  Step(Token_new("NotEq", l.ch \o l2.ch), l2)
                   ELSE Step(Token_new("Bang", "!"), l)
          [] l.ch \in DOMAIN SingleCharTokens ->
               Step(Token_new(SingleCharTokens[l.ch], l.ch), l)
          [] l.ch = NUL -> Step(Token_new("Eof", ""), l)
          [] OTHER ->
               IF is_letter(l.ch)
                   THEN LET r == read_identifier(l)
                        IN  [tok |-> Token_new(lookup_ident(r.literal), r.literal),
                             lexer |-> r.lexer]
                   ELSE IF is_digit(l.ch)
                       THEN LET r == read_numbers(l)
                            IN  [tok |-> Token_new("Int", r.literal), lexer |-> r.lexer]
                       ELSE Step(Token_new("Illegal", ""), l)

(***************************************************************************)
(* ast.rs: nodes are records tagged by "node"; Option::None is None.       *)
(***************************************************************************)
None == [node |-> "None"]

Identifier(token, value) == [node |-> "Identifier", token |-> token, value |-> value]

IntegerLiteral(token, value) ==
    [node |-> "IntegerLiteral", token |-> token, value |-> value]

Boolean(token, value) == [node |-> "Boolean", token |-> token, value |-> value]

\* Used by evaluator.rs:132; ast.rs does not declare it.
StringLiteral(token, value) ==
    [node |-> "StringLiteral", token |-> token, value |-> value]

PrefixExpression(token, operator, right) ==
    [node |-> "PrefixExpression", token |-> token, operator |-> operator,
     right |-> right]

InfixExpression(token, left, operator, right) ==
    [node |-> "InfixExpression", token |-> token, left |-> left,
     operator |-> operator, right |-> right]

BlockStatement(token, statements) ==
    [node |-> "BlockStatement", token |-> token, statements |-> statements]

IfExpression(token, condition, consequence, alternative) ==
    [node |-> "IfExpression", token |-> token, condition |-> condition,
     consequence |-> consequence, alternative |-> alternative]

FunctionLiteral(token, parameters, body) ==
    [node |-> "FunctionLiteral", token |-> token, parameters |-> parameters,
     body |-> body]

CallExpression(token, function, arguments) ==
    [node |-> "CallExpression", token |-> token, function |-> function,
     arguments |-> arguments]

LetStatement(token, name, value) ==
    [node |-> "LetStatement", token |-> token, name |-> name, value |-> value]

ReturnStatement(token, return_value) ==
    [node |-> "ReturnStatement", token |-> token, return_value |-> return_value]

ExpressionStatement(token, expression) ==
    [node |-> "ExpressionStatement", token |-> token, expression |-> expression]

Program(statements) == [statements |-> statements]

\* impl Clone for BlockStatement: the token is cloned, the statements are not.
BlockStatement_clone(block) == BlockStatement(block.token, <<>>)

token_literal(n) == n.token.literal

\* i64's Display.
RECURSIVE NatToString(_)
NatToString(n) ==
    LET digit == SubSeq("0123456789", (n % 10) + 1, (n % 10) + 1)
    IN  IF n < 10 THEN digit ELSE NatToString(n \div 10) \o digit

IntToString(n) == IF n < 0 THEN "-" \o NatToString(0 - n) ELSE NatToString(n)

\* Vec<String>::join
RECURSIVE Join(_, _)
Join(strs, sep) ==
    IF strs = <<>> THEN ""
    ELSE IF Len(strs) = 1 THEN strs[1]
    ELSE strs[1] \o sep \o Join(Tail(strs), sep)

RECURSIVE Concat(_)
Concat(strs) == IF strs = <<>> THEN "" ELSE strs[1] \o Concat(Tail(strs))

\* impl fmt::Display for the nodes (dyn Statement, dyn Expression and each
\* struct): the text a node prints as.
RECURSIVE Display(_)
Display(n) ==
    CASE n.node = "ExpressionStatement" -> Display(n.expression)
      [] n.node = "LetStatement" ->
           token_literal(n) \o " " \o token_literal(n.name) \o " = "
               \o (IF n.value = None THEN "" ELSE Display(n.value)) \o ";"
      [] n.node = "ReturnStatement" ->
           token_literal(n) \o " "
               \o (IF n.return_value = None THEN "" ELSE Display(n.return_value))
               \o ";"
      [] n.node = "BlockStatement" ->
           "{ " \o Concat([i \in 1..Len(n.statements) |-> Display(n.statements[i])])
               \o " }"
      [] n.node = "PrefixExpression" ->
           "(" \o n.operator \o Display(n.right) \o ")"
      [] n.node = "InfixExpression" ->
           "(" \o Display(n.left) \o " " \o n.operator \o " " \o Display(n.right)
               \o ")"
      [] n.node = "IntegerLiteral" -> IntToString(n.value)
      [] n.node = "Identifier" -> n.value
      [] n.node = "Boolean" -> IF n.value THEN "true" ELSE "false"
      [] n.node = "IfExpression" ->
           "if" \o Display(n.condition) \o " " \o Display(n.consequence)
               \o (IF n.alternative = None THEN ""
                   ELSE "else " \o Display(n.alternative))
      [] n.node = "FunctionLiteral" ->
           token_literal(n) \o "("
               \o Join([i \in 1..Len(n.parameters) |-> Display(n.parameters[i])], ", ")
               \o ") " \o Display(n.body)
      [] n.node = "CallExpression" ->
           Display(n.function) \o "("
               \o Join([i \in 1..Len(n.arguments) |-> Display(n.arguments[i])], ", ")
               \o ")"
      [] OTHER -> token_literal(n)

Program_Display(prog) ==
    Concat([i \in 1..Len(prog.statements) |-> Display(prog.statements[i])])

(***************************************************************************)
(* parser.rs: a parser p is [lexer, cur_token, peek_token, errors]; every  *)
(* parse function returns [p |-> the parser after it, node |-> its result]. *)
(***************************************************************************)
Lowest == 0
Equals == 1
LessGreater == 2
Sum == 3
Product == 4
Prefix == 5
Call == 6

from_token_type(token_type) ==
    CASE token_type \in {"Eq", "NotEq"} -> Equals
      [] token_type \in {"Lt", "Gt"} -> LessGreater
      [] token_type \in {"Plus", "Minus"} -> Sum
      [] token_type \in {"Slash", "Asterisk"} -> Product
      [] token_type = "Lparen" -> Call
      [] OTHER -> Lowest

\* The keys Parser::new registers in prefix_parse_fns and infix_parse_fns.
prefix_parse_fns ==
    {"Int", "Bang", "Minus", "True", "False", "Lparen", "If", "Ident", "Function"}

infix_parse_fns ==
    {"Plus", "Minus", "Slash", "Asterisk", "Eq", "NotEq", "Lt", "Gt", "Lparen"}

Parser_next_token(p) ==
    The({[p EXCEPT !.cur_token = p.peek_token, !.peek_token = n.tok,
                   !.lexer = n.lexer] :
            n \in {Lexer_next_token(p.lexer)}})

\* Parser::new: the two calls of next_token fill cur_token and peek_token.
Parser_new(lexer) ==
    Parser_next_token(Parser_next_token(
        [lexer |-> lexer, cur_token |-> Token_new("Illegal", ""),
         peek_token |-> Token_new("Illegal", ""), errors |-> <<>>]))

peek_token_is(p, t) == p.peek_token.token_type = t

cur_token_is(p, t) == p.cur_token.token_type = t

peek_precedence(p) == from_token_type(p.peek_token.token_type)

cur_precedence(p) == from_token_type(p.cur_token.token_type)

no_prefix_parse_fn_error(p, token_type) ==
    [p EXCEPT !.errors =
        Append(@, "no prefix parse function for " \o token_type \o " found")]

peek_error(p, t) ==
    [p EXCEPT !.errors =
        Append(@, "expected next token to be " \o t \o ", got "
                    \o p.peek_token.token_type \o " instead")]

\* expect_peek: [p |-> the parser after it, ok |-> its result]
expect_peek(p, t) ==
    IF p.peek_token.token_type = t
        THEN [p |-> Parser_next_token(p), ok |-> TRUE]
        ELSE [p |-> peek_error(p, t), ok |-> FALSE]

\* str::parse::<i64> on the literal of an Int token (digits and underscores,
\* a digit first): ok is FALSE for Err.  The literals of the inputs are far
\* shorter than 19 digits: none overflows an i64.
RECURSIVE DigitsValue(_, _)
DigitsValue(s, acc) ==
    IF s = "" THEN acc
    ELSE LET d == CHOOSE k \in 0..9 : SubSeq("0123456789", k + 1, k + 1) = Head(s)
         IN  DigitsValue(Tail(s), acc * 10 + d)

parse_i64(s) ==
    IF s # "" /\ \A i \in 1..Len(s) : SubSeq(s, i, i) \in AsciiDigit
        THEN [ok |-> TRUE, value |-> DigitsValue(s, 0)]
        ELSE [ok |-> FALSE]

parse_identifier(p) ==
    [p |-> p, node |-> Identifier(p.cur_token, p.cur_token.literal)]

parse_integer_literal(p) ==
    LET parsed == parse_i64(p.cur_token.literal)
    IN  IF parsed.ok
            THEN [p |-> p, node |-> IntegerLiteral(p.cur_token, parsed.value)]
            ELSE [p |-> [p EXCEPT !.errors = Append(@,
                            "could not parse " \o p.cur_token.literal \o " as integer")],
                  node |-> None]

parse_boolean(p) ==
    [p |-> p, node |-> Boolean(p.cur_token, cur_token_is(p, "True"))]

\* if self.peek_token_is(&TokenType::Semicolon) { self.next_token(); }
skip_semicolon(p) == IF peek_token_is(p, "Semicolon") THEN Parser_next_token(p) ELSE p

\* The result of a parse function that returns None.
Fail(p) == [p |-> p, node |-> None]

RECURSIVE parse_statement(_), parse_expression(_, _), parse_expression_loop(_, _, _),
          prefix_parse(_), infix_parse(_, _), parse_expression_statement(_),
          parse_grouped_expression(_), parse_let_statement(_),
          parse_return_statement(_), parse_prefix_expression(_),
          parse_infix_expression(_, _), parse_if_expression(_),
          parse_block_statement(_), parse_block_statement_loop(_, _),
          parse_function_literal(_), parse_function_parameters(_),
          parse_function_parameters_loop(_, _), parse_call_expression(_, _),
          parse_call_arguments(_), parse_call_arguments_loop(_, _),
          parse_expression_loop_not_above(_, _, _)

parse_statement(p) ==
    CASE p.cur_token.token_type = "Let" -> parse_let_statement(p)
      [] p.cur_token.token_type = "Return" -> parse_return_statement(p)
      [] OTHER -> parse_expression_statement(p)

\* The call through prefix_parse_fns[cur_token.token_type].
prefix_parse(p) ==
    CASE p.cur_token.token_type = "Int" -> parse_integer_literal(p)
      [] p.cur_token.token_type \in {"Bang", "Minus"} -> parse_prefix_expression(p)
      [] p.cur_token.token_type \in {"True", "False"} -> parse_boolean(p)
      [] p.cur_token.token_type = "Lparen" -> parse_grouped_expression(p)
      [] p.cur_token.token_type = "If" -> parse_if_expression(p)
      [] p.cur_token.token_type = "Ident" -> parse_identifier(p)
      [] p.cur_token.token_type = "Function" -> parse_function_literal(p)

\* The call through infix_parse_fns[cur_token.token_type].
infix_parse(p, left) ==
    IF p.cur_token.token_type = "Lparen"
        THEN parse_call_expression(p, left)
        ELSE parse_infix_expression(p, left)

\* The while loop of parse_expression as it would be if it also went on at
\* an operator of the precedence it was called with.
parse_expression_loop_not_above(p, left_exp, precedence) ==
    IF ~peek_token_is(p, "Semicolon") /\ precedence <= peek_precedence(p)
        THEN IF p.peek_token.token_type \notin infix_parse_fns
                 THEN [p |-> p, node |-> left_exp]
             ELSE IF left_exp = None
                 THEN Fail(Parser_next_token(p))
             ELSE The({parse_expression_loop_not_above(r.p, r.node, precedence) :
                          r \in {infix_parse(Parser_next_token(p), left_exp)}})
        ELSE [p |-> p, node |-> left_exp]

\* The while loop of parse_expression.
parse_expression_loop(p, left_exp, precedence) ==
    IF ~peek_token_is(p, "Semicolon") /\ precedence < peek_precedence(p)
        THEN IF p.peek_token.token_type \notin infix_parse_fns
                 THEN [p |-> p, node |-> left_exp]
             ELSE IF left_exp = None
                 THEN Fail(Parser_next_token(p))
             ELSE The({parse_expression_loop(r.p, r.node, precedence) :
                          r \in {infix_parse(Parser_next_token(p), left_exp)}})
        ELSE [p |-> p, node |-> left_exp]

parse_expression(p, precedence) ==
    IF p.cur_token.token_type \notin prefix_parse_fns
        THEN Fail(no_prefix_parse_fn_error(p, p.cur_token.token_type))
        ELSE The({parse_expression_loop(left.p, left.node, precedence) :
                     left \in {prefix_parse(p)}})

parse_expression_statement(p) ==
    The({IF expression.node = None
             THEN Fail(expression.p)
             ELSE [p |-> skip_semicolon(expression.p),
                   node |-> ExpressionStatement(expression.p.cur_token,
                                                expression.node)] :
            expression \in {parse_expression(p, Lowest)}})

parse_grouped_expression(p) ==
    The({The({IF ~x.ok THEN Fail(x.p) ELSE [p |-> x.p, node |-> exp.node] :
                 x \in {expect_peek(exp.p, "Rparen")}}) :
            exp \in {parse_expression(Parser_next_token(p), Lowest)}})

\* self.cur_token as an Identifier.
cur_identifier(p) == Identifier(p.cur_token, p.cur_token.literal)

parse_let_statement(p) ==
    The({IF ~x1.ok THEN Fail(x1.p)
         ELSE The({IF ~x2.ok THEN Fail(x2.p)
                   ELSE The({[p |-> skip_semicolon(value.p),
                              node |-> LetStatement(p.cur_token, cur_identifier(x1.p),
                                                    value.node)] :
                                value \in {parse_expression(Parser_next_token(x2.p),
                                                            Lowest)}}) :
                      x2 \in {expect_peek(x1.p, "Assign")}}) :
            x1 \in {expect_peek(p, "Ident")}})

parse_return_statement(p) ==
    The({[p |-> skip_semicolon(return_value.p),
          node |-> ReturnStatement(p.cur_token, return_value.node)] :
            return_value \in {parse_expression(Parser_next_token(p), Lowest)}})

parse_prefix_expression(p) ==
    The({IF right.node = None
             THEN Fail(right.p)
             ELSE [p |-> right.p,
                   node |-> PrefixExpression(p.cur_token, p.cur_token.literal,
                                             right.node)] :
            right \in {parse_expression(Parser_next_token(p), Prefix)}})

parse_infix_expression(p, left) ==
    The({IF right.node = None
             THEN Fail(right.p)
             ELSE [p |-> right.p,
                   node |-> InfixExpression(p.cur_token, left, p.cur_token.literal,
                                            right.node)] :
            right \in {parse_expression(Parser_next_token(p), cur_precedence(p))}})

\* The while loop of parse_block_statement: node is the statements.
parse_block_statement_loop(p, statements) ==
    IF ~cur_token_is(p, "Rbrace") /\ ~cur_token_is(p, "Eof")
        THEN The({parse_block_statement_loop(
                      Parser_next_token(stmt.p),
                      IF stmt.node = None THEN statements
                      ELSE Append(statements, stmt.node)) :
                     stmt \in {parse_statement(p)}})
        ELSE [p |-> p, node |-> statements]

parse_block_statement(p) ==
    The({[p |-> r.p, node |-> BlockStatement(p.cur_token, r.node)] :
            r \in {parse_block_statement_loop(Parser_next_token(p), <<>>)}})

\* The end of parse_if_expression, from the consequence on.
parse_if_expression_alternative(token, condition, consequence) ==
    IF peek_token_is(consequence.p, "Else")
        THEN The({IF ~x.ok THEN Fail(x.p)
                  ELSE The({[p |-> alternative.p,
                             node |-> IfExpression(token, condition, consequence.node,
                                                   alternative.node)] :
                               alternative \in {parse_block_statement(x.p)}}) :
                     x \in {expect_peek(Parser_next_token(consequence.p), "Lbrace")}})
        ELSE [p |-> consequence.p,
              node |-> IfExpression(token, condition, consequence.node, None)]

parse_if_expression(p) ==
    The({IF ~x1.ok THEN Fail(x1.p)
         ELSE The({IF condition.node = None THEN Fail(condition.p)
                   ELSE The({IF ~x2.ok THEN Fail(x2.p)
                             ELSE The({IF ~x3.ok THEN Fail(x3.p)
                                       ELSE The({parse_if_expression_alternative(
                                                     p.cur_token, condition.node,
                                                     consequence) :
                                                    consequence \in
                                                        {parse_block_statement(x3.p)}}) :
                                          x3 \in {expect_peek(x2.p, "Lbrace")}}) :
                                x2 \in {expect_peek(condition.p, "Rparen")}}) :
                      condition \in {parse_expression(Parser_next_token(x1.p),
                                                      Lowest)}}) :
            x1 \in {expect_peek(p, "Lparen")}})

\* The while loop of parse_function_parameters: node is the identifiers.
\* parse_function_parameters itself returns ok = FALSE for Option::None.
parse_function_parameters_loop(p, identifiers) ==
    IF peek_token_is(p, "Comma")
        THEN The({parse_function_parameters_loop(
                      p2, Append(identifiers, cur_identifier(p2))) :
                     p2 \in {Parser_next_token(Parser_next_token(p))}})
        ELSE [p |-> p, node |-> identifiers]

parse_function_parameters(p) ==
    IF peek_token_is(p, "Rparen")
        THEN [p |-> Parser_next_token(p), node |-> <<>>, ok |-> TRUE]
        ELSE The({The({The({IF ~x.ok THEN [p |-> x.p, node |-> <<>>, ok |-> FALSE]
                            ELSE [p |-> x.p, node |-> r.node, ok |-> TRUE] :
                               x \in {expect_peek(r.p, "Rparen")}}) :
                          r \in {parse_function_parameters_loop(
                                     p1, <<cur_identifier(p1)>>)}}) :
                     p1 \in {Parser_next_token(p)}})

parse_function_literal(p) ==
    The({IF ~x1.ok THEN Fail(x1.p)
         ELSE The({IF ~parameters.ok THEN Fail(parameters.p)
                   ELSE The({IF ~x2.ok THEN Fail(x2.p)
                             ELSE The({[p |-> body.p,
                                        node |-> FunctionLiteral(p.cur_token,
                                                                 parameters.node,
                                                                 body.node)] :
                                          body \in {parse_block_statement(x2.p)}}) :
                                x2 \in {expect_peek(parameters.p, "Lbrace")}}) :
                      parameters \in {parse_function_parameters(x1.p)}}) :
            x1 \in {expect_peek(p, "Lparen")}})

\* The while loop of parse_call_arguments: node is the arguments.
parse_call_arguments_loop(p, args) ==
    IF peek_token_is(p, "Comma")
        THEN The({parse_call_arguments_loop(
                      arg.p, IF arg.node = None THEN args ELSE Append(args, arg.node)) :
                     arg \in {parse_expression(Parser_next_token(Parser_next_token(p)),
                                               Lowest)}})
        ELSE [p |-> p, node |-> args]

parse_call_arguments(p) ==
    IF peek_token_is(p, "Rparen")
        THEN [p |-> Parser_next_token(p), node |-> <<>>]
        ELSE The({The({The({IF ~x.ok THEN [p |-> x.p, node |-> <<>>]
                            ELSE [p |-> x.p, node |-> r.node] :
                               x \in {expect_peek(r.p, "Rparen")}}) :
                          r \in {parse_call_arguments_loop(
                                     arg.p,
                                     IF arg.node = None THEN <<>> ELSE <<arg.node>>)}}) :
                     arg \in {parse_expression(Parser_next_token(p), Lowest)}})

parse_call_expression(p, function) ==
    The({[p |-> arguments.p,
          node |-> CallExpression(p.cur_token, function, arguments.node)] :
            arguments \in {parse_call_arguments(p)}})

\* The while loop of parse_program: node is the statements.
RECURSIVE parse_program_loop(_, _)
parse_program_loop(p, statements) ==
    IF p.cur_token.token_type # "Eof"
        THEN The({parse_program_loop(
                      Parser_next_token(stmt.p),
                      IF stmt.node = None THEN statements
                      ELSE Append(statements, stmt.node)) :
                     stmt \in {parse_statement(p)}})
        ELSE [p |-> p, node |-> statements]

parse_program(p) ==
    The({[p |-> r.p, node |-> Program(r.node)] : r \in {parse_program_loop(p, <<>>)}})

(***************************************************************************)
(* object.rs: values are records tagged by "type", the text ObjectType     *)
(* prints as.                                                              *)
(***************************************************************************)
Integer_new(value) == [type |-> "INTEGER", value |-> value]

Boolean_new(value) == [type |-> "BOOLEAN", value |-> value]

StringObj_new(value) == [type |-> "STRING", value |-> value]

Null_new == [type |-> "NULL"]

ReturnValue_new(value) == [type |-> "RETURN_VALUE", value |-> value]

Error_new(message) == [type |-> "ERROR", message |-> message]

Builtin_new(func) == [type |-> "BUILTIN", func |-> func]

\* env is the Rc<RefCell<Environment>>.  Nothing in the source borrows it
\* mutably, so the environment behind the Rc never changes once it is made
\* and the model holds it by value.
Function_new(parameters, body, fenv) ==
    [type |-> "FUNCTION", parameters |-> parameters, body |-> body, env |-> fenv]

\* Object::inspect of each type.
RECURSIVE inspect(_)
inspect(obj) ==
    CASE obj.type = "INTEGER" -> IntToString(obj.value)
      [] obj.type = "STRING" -> obj.value
      [] obj.type = "BOOLEAN" -> IF obj.value THEN "true" ELSE "false"
      [] obj.type = "NULL" -> "null"
      [] obj.type = "RETURN_VALUE" -> inspect(obj.value)
      [] obj.type = "FUNCTION" ->
           "fn(" \o Join([i \in DOMAIN obj.parameters |-> obj.parameters[i].value], ", ")
               \o ") {\n" \o "  " \o Display(obj.body) \o "\n" \o "}"
      [] obj.type = "ERROR" -> "ERROR: " \o obj.message
      [] obj.type = "BUILTIN" -> "builtin function"

\* A Rust panic (integer division by zero): the evaluation is abandoned and
\* no value is returned.  The model passes the marker up to the entry point.
Panic(message) == [type |-> "PANIC", message |-> message]

panicked(obj) == obj.type = "PANIC"

(***************************************************************************)
(* environment.rs                                                          *)
(***************************************************************************)
\* impl Clone for Box<dyn Object>
Object_clone(obj) ==
    CASE obj.type = "INTEGER" -> Integer_new(obj.value)
      [] obj.type = "BOOLEAN" -> Boolean_new(obj.value)
      [] obj.type = "STRING" -> StringObj_new(obj.value)
      [] obj.type = "FUNCTION" ->
           Function_new(obj.parameters, BlockStatement_clone(obj.body), obj.env)
      [] obj.type = "BUILTIN" -> Builtin_new(obj.func)
      [] OTHER -> Null_new

EmptyStore == [name \in {} |-> Null_new]

Environment_new == [store |-> EmptyStore, outer |-> None]

new_enclosed(outer) == [store |-> EmptyStore, outer |-> outer]

\* Environment::get: found is FALSE for Option::None.
RECURSIVE Environment_get(_, _)
Environment_get(e, name) ==
    IF name \in DOMAIN e.store
        THEN [found |-> TRUE, val |-> Object_clone(e.store[name])]
        ELSE IF e.outer # None
            THEN Environment_get(e.outer, name)
            ELSE [found |-> FALSE]

\* Environment::set as it would be if it assigned where the name is bound:
\* in the nearest ancestor that binds it when the local scope does not.
RECURSIVE Environment_set_where_bound(_, _, _)
Environment_set_where_bound(e, name, val) ==
    IF name \notin DOMAIN e.store /\ e.outer # None
           /\ Environment_get(e.outer, name).found
        THEN [e EXCEPT !.outer = Environment_set_where_bound(e.outer, name, val)]
        ELSE [e EXCEPT !.store = (name :> Object_clone(val)) @@ e.store]

\* Environment::set: the environment after it; the call returns val.
Environment_set(e, name, val) ==
    [e EXCEPT !.store = (name :> Object_clone(val)) @@ e.store]

\* impl Clone for Environment
Environment_clone(e) ==
    [store |-> [key \in DOMAIN e.store |-> Object_clone(e.store[key])],
     outer |-> e.outer]

(***************************************************************************)
(* builtins.rs                                                             *)
(***************************************************************************)
\* The source writes len between backquotes in the second message; a TLA+
\* string cannot hold a backquote, so the model writes apostrophes there.
len_function(args) ==
    IF Len(args) # 1
        THEN Error_new("wrong number of arguments. got=" \o IntToString(Len(args))
                           \o ", want=1")
        ELSE IF args[1].type = "STRING"
            THEN Integer_new(Len(args[1].value))
            ELSE Error_new("argument to 'len' not supported, got " \o args[1].type)

get_builtins == [name \in {"len"} |-> Builtin_new("len_function")]

\* The call (builtin.func)(args) through the function pointer.
call_builtin(func, args) == CASE func = "len_function" -> len_function(args)

(***************************************************************************)
(* evaluator.rs.  Each eval function takes the environment e it is given   *)
(* as &mut, the trace t so far and the depth d of function calls it runs   *)
(* under, and returns [val |-> the value it returns, env |-> e after it,   *)
(* trace |-> the trace after it].  The trace is the model's record of the  *)
(* calls: eval_statement entered for a statement ("enter") and returning   *)
(* ("exit"), eval_block_statement and eval_program returning ("end").      *)
(***************************************************************************)
R(val, e, t) == [val |-> val, env |-> e, trace |-> t]

Enter(statement, d) == [ev |-> "enter", stmt |-> statement, depth |-> d]

Exit(statement, val, d) ==
    [ev |-> "exit", stmt |-> statement, val |-> val, depth |-> d]

End(val, d) == [ev |-> "end", val |-> val, depth |-> d]

native_bool_to_boolean_object(b) == Boolean_new(b)

new_error(message) == Error_new(message)

is_error(obj) == obj.type = "ERROR"

\* is_truthy as it would be if the integer 0 were falsy too.
is_truthy_zero_falsy(obj) ==
    CASE obj.type = "NULL" -> FALSE
      [] obj.type = "BOOLEAN" -> obj.value
      [] obj.type = "INTEGER" -> obj.value # 0
      [] OTHER -> TRUE

is_truthy(obj) ==
    CASE obj.type = "NULL" -> FALSE
      [] obj.type = "BOOLEAN" -> obj.value
      [] OTHER -> TRUE

\* Rust's i64 division: the quotient truncated toward zero.
Quotient(a, b) ==
    LET abs(x) == IF x < 0 THEN 0 - x ELSE x
        q == abs(a) \div abs(b)
    IN  IF (a < 0) = (b < 0) THEN q ELSE 0 - q

\* The operands of the inputs are small: no result overflows an i64.
eval_integer_infix_expression(operator, left, right) ==
    LET left_val == left.value
        right_val == right.value
    IN  CASE operator = "+" -> Integer_new(left_val + right_val)
          [] operator = "-" -> Integer_new(left_val - right_val)
          [] operator = "*" -> Integer_new(left_val * right_val)
          [] operator = "/" ->
               IF right_val = 0
                   THEN Panic("attempt to divide by zero")
                   ELSE Integer_new(Quotient(left_val, right_val))
          [] operator = "<" -> native_bool_to_boolean_object(left_val < right_val)
          [] operator = ">" -> native_bool_to_boolean_object(left_val > right_val)
          [] operator = "==" -> native_bool_to_boolean_object(left_val = right_val)
          [] operator = "!=" -> native_bool_to_boolean_object(left_val # right_val)
          [] OTHER -> Null_new

eval_string_infix_expression(operator, left, right) ==
    IF operator # "+"
        THEN new_error("unknown operator: " \o left.type \o " " \o operator \o " "
                           \o right.type)
        ELSE StringObj_new(left.value \o right.value)

eval_infix_expression(operator, left, right) ==
    LET left_is_true == IF left.type = "BOOLEAN" THEN left.value ELSE FALSE
        right_is_true == IF right.type = "BOOLEAN" THEN right.value ELSE FALSE
    IN  IF left.type = "INTEGER" /\ right.type = "INTEGER"
            THEN eval_integer_infix_expression(operator, left, right)
        ELSE IF left.type = "STRING" /\ right.type = "STRING"
            THEN eval_string_infix_expression(operator, left, right)
        ELSE IF left.type # right.type
            THEN new_error("type mismatch: " \o left.type \o " " \o operator \o " "
                               \o right.type)
        ELSE IF operator = "=="
            THEN native_bool_to_boolean_object(left_is_true = right_is_true)
        ELSE IF operator = "!="
            THEN native_bool_to_boolean_object(left_is_true # right_is_true)
        ELSE new_error("unknown operator: " \o left.type \o " " \o operator \o " "
                           \o right.type)

eval_bang_operator_expression(right) ==
    IF right.type = "BOOLEAN" THEN native_bool_to_boolean_object(~right.value)
    ELSE IF right.type = "NULL" THEN native_bool_to_boolean_object(TRUE)
    ELSE native_bool_to_boolean_object(FALSE)

eval_minus_prefix_operator_expression(right) ==
    IF right.type # "INTEGER"
        THEN new_error("unknown operator: -" \o right.type)
        ELSE Integer_new(0 - right.value)

eval_prefix_expression(operator, right) ==
    CASE operator = "!" -> eval_bang_operator_expression(right)
      [] operator = "-" -> eval_minus_prefix_operator_expression(right)
      [] OTHER -> new_error("unknown operator: " \o operator \o right.type)

\* eval_identifier as it would be if it looked in the builtin table first.
eval_identifier_builtin_first(node, e) ==
    LET got == Environment_get(e, node.value)
    IN  IF node.value \in DOMAIN get_builtins
            THEN Object_clone(get_builtins[node.value])
        ELSE IF got.found THEN got.val
        ELSE new_error("identifier not found: " \o node.value)

eval_identifier(node, e) ==
    LET got == Environment_get(e, node.value)
    IN  IF got.found THEN got.val
        ELSE IF node.value \in DOMAIN get_builtins
            THEN Object_clone(get_builtins[node.value])
        ELSE new_error("identifier not found: " \o node.value)

unwrap_return_value(obj) ==
    IF obj.type = "RETURN_VALUE" THEN Object_clone(obj.value) ELSE obj

\* The for loop of apply_function: extended_env after the parameters are set.
RECURSIVE bind_parameters(_, _, _, _)
bind_parameters(extended_env, parameters, args, i) ==
    IF i > Len(parameters) THEN extended_env
    ELSE bind_parameters(
             IF i - 1 < Len(args)
                 THEN Environment_set(extended_env, parameters[i].value, args[i])
                 ELSE extended_env,
             parameters, args, i + 1)

RECURSIVE eval_statement(_, _, _, _), eval_expression(_, _, _, _),
          eval_expressions_loop(_, _, _, _, _, _), apply_function(_, _, _, _),
          eval_if_expression(_, _, _, _), eval_block_statement_loop(_, _, _, _, _, _),
          eval_block_statement_loop_return_only(_, _, _, _, _, _)

\* eval_statement returning r: the trace records the return.
statement_exit(statement, r, d) ==
    R(r.val, r.env, Append(r.trace, Exit(statement, r.val, d)))

eval_statement(statement, e, t, d) ==
    CASE statement.node = "ExpressionStatement" ->
           The({statement_exit(statement, v, d) :
                   v \in {eval_expression(statement.expression, e,
                                          Append(t, Enter(statement, d)), d)}})
      [] statement.node = "ReturnStatement" /\ statement.return_value # None ->
           The({statement_exit(statement,
                               IF panicked(v.val) \/ is_error(v.val) THEN v
                               ELSE R(ReturnValue_new(v.val), v.env, v.trace),
                               d) :
                   v \in {eval_expression(statement.return_value, e,
                                          Append(t, Enter(statement, d)), d)}})
      [] statement.node = "LetStatement" /\ statement.value # None ->
           The({statement_exit(statement,
                               IF panicked(v.val) \/ is_error(v.val) THEN v
                               ELSE R(v.val,
                                      Environment_set(v.env, statement.name.value,
                                                      v.val),
                                      v.trace),
                               d) :
                   v \in {eval_expression(statement.value, e,
                                          Append(t, Enter(statement, d)), d)}})
      [] OTHER -> statement_exit(statement,
                                 R(Null_new, e, Append(t, Enter(statement, d))), d)

\* The for loop of eval_block_statement as it would be without the ERROR arm
\* of its check.
eval_block_statement_loop_return_only(statements, i, result, e, t, d) ==
    IF i > Len(statements) THEN R(result, e, t)
    ELSE The({IF panicked(r.val) \/ r.val.type \in {"RETURN_VALUE"} THEN r
              ELSE eval_block_statement_loop_return_only(statements, i + 1, r.val,
                                                         r.env, r.trace, d) :
                 r \in {eval_statement(statements[i], e, t, d)}})

\* The for loop of eval_block_statement.
eval_block_statement_loop(statements, i, result, e, t, d) ==
    IF i > Len(statements) THEN R(result, e, t)
    ELSE The({IF panicked(r.val) \/ r.val.type \in {"RETURN_VALUE", "ERROR"} THEN r
              ELSE eval_block_statement_loop(statements, i + 1, r.val, r.env,
                                             r.trace, d) :
                 r \in {eval_statement(statements[i], e, t, d)}})

eval_block_statement(block, e, t, d) ==
    The({IF panicked(r.val) THEN r
         ELSE R(r.val, r.env, Append(r.trace, End(r.val, d))) :
            r \in {eval_block_statement_loop(block.statements, 1, Null_new, e, t, d)}})

eval_if_expression(if_expression, e, t, d) ==
    The({IF panicked(condition.val) \/ is_error(condition.val) THEN condition
         ELSE IF is_truthy(condition.val)
             THEN eval_block_statement(if_expression.consequence, condition.env,
                                       condition.trace, d)
         ELSE IF if_expression.alternative # None
             THEN eval_block_statement(if_expression.alternative, condition.env,
                                       condition.trace, d)
         ELSE R(Null_new, condition.env, condition.trace) :
            condition \in {eval_expression(if_expression.condition, e, t, d)}})

\* The for loop of eval_expressions: [vals |-> the Vec, env, trace].
eval_expressions_loop(exps, i, result, e, t, d) ==
    IF i > Len(exps) THEN [vals |-> result, env |-> e, trace |-> t]
    ELSE The({IF panicked(evaluated.val) \/ is_error(evaluated.val)
                  THEN [vals |-> <<evaluated.val>>, env |-> evaluated.env,
                        trace |-> evaluated.trace]
                  ELSE eval_expressions_loop(exps, i + 1,
                                             Append(result, evaluated.val),
                                             evaluated.env, evaluated.trace, d) :
                 evaluated \in {eval_expression(exps[i], e, t, d)}})

eval_expressions(exps, e, t, d) == eval_expressions_loop(exps, 1, <<>>, e, t, d)

\* apply_function has no environment of the caller: [val, trace].
apply_function(func, args, t, d) ==
    CASE func.type = "FUNCTION" ->
           The({[val |-> unwrap_return_value(evaluated.val),
                 trace |-> evaluated.trace] :
                   evaluated \in
                       {eval_block_statement(
                            func.body,
                            bind_parameters(new_enclosed(func.env), func.parameters,
                                            args, 1),
                            t, d + 1)}})
      [] func.type = "BUILTIN" -> [val |-> call_builtin(func.func, args), trace |-> t]
      [] OTHER -> [val |-> new_error("not a function: " \o func.type), trace |-> t]

\* The CallExpression arm of eval_expression once the function is evaluated.
eval_call_arguments(function, arguments, d) ==
    The({IF args.vals # <<>> /\ panicked(args.vals[1])
             THEN R(args.vals[1], args.env, args.trace)
         ELSE IF args.vals # <<>> /\ is_error(args.vals[1])
             THEN R(Object_clone(args.vals[1]), args.env, args.trace)
         ELSE The({R(applied.val, args.env, applied.trace) :
                      applied \in {apply_function(function.val, args.vals,
                                                  args.trace, d)}}) :
            args \in {eval_expressions(arguments, function.env, function.trace, d)}})

eval_expression(expression, e, t, d) ==
    CASE expression.node = "IntegerLiteral" -> R(Integer_new(expression.value), e, t)
      [] expression.node = "StringLiteral" -> R(StringObj_new(expression.value), e, t)
      [] expression.node = "Boolean" ->
           R(native_bool_to_boolean_object(expression.value), e, t)
      [] expression.node = "Identifier" -> R(eval_identifier(expression, e), e, t)
      [] expression.node = "PrefixExpression" ->
           The({IF panicked(right.val) \/ is_error(right.val) THEN right
                ELSE R(eval_prefix_expression(expression.operator, right.val),
                       right.env, right.trace) :
                   right \in {eval_expression(expression.right, e, t, d)}})
      [] expression.node = "InfixExpression" ->
           The({IF panicked(left.val) \/ is_error(left.val) THEN left
                ELSE The({IF panicked(right.val) \/ is_error(right.val) THEN right
                          ELSE R(eval_infix_expression(expression.operator, left.val,
                                                       right.val),
                                 right.env, right.trace) :
                             right \in {eval_expression(expression.right, left.env,
                                                        left.trace, d)}}) :
                   left \in {eval_expression(expression.left, e, t, d)}})
      [] expression.node = "IfExpression" -> eval_if_expression(expression, e, t, d)
      [] expression.node = "FunctionLiteral" ->
           R(Function_new(expression.parameters,
                          BlockStatement_clone(expression.body),
                          Environment_clone(e)),
             e, t)
      [] expression.node = "CallExpression" ->
           The({IF panicked(function.val) \/ is_error(function.val) THEN function
                ELSE eval_call_arguments(function, expression.arguments, d) :
                   function \in {eval_expression(expression.function, e, t, d)}})
      [] OTHER -> R(Null_new, e, t)

\* The value eval_program would return for a ReturnValue if it passed the
\* wrapper on as eval_block_statement does.
program_return_value_still_wrapped(return_value) ==
    return_value

\* The value eval_program returns for a ReturnValue (evaluator.rs:64-82).
program_return_value(return_value) ==
    CASE return_value.value.type = "INTEGER" -> Integer_new(return_value.value.value)
      [] return_value.value.type = "BOOLEAN" ->
           native_bool_to_boolean_object(return_value.value.value)
      [] return_value.value.type = "NULL" -> Null_new
      [] OTHER -> Null_new

\* The for loop of eval_program.
RECURSIVE eval_program_loop(_, _, _, _, _)
eval_program_loop(statements, i, result, e, t) ==
    IF i > Len(statements) THEN R(result, e, t)
    ELSE The({IF panicked(r.val) \/ is_error(r.val) THEN r
              ELSE IF r.val.type = "RETURN_VALUE"
                  THEN R(program_return_value(r.val), r.env, r.trace)
              ELSE eval_program_loop(statements, i + 1, r.val, r.env, r.trace) :
                 r \in {eval_statement(statements[i], e, t, 0)}})

eval_program(prog, e) ==
    The({IF panicked(r.val) THEN r
         ELSE R(r.val, r.env, Append(r.trace, End(r.val, 0))) :
            r \in {eval_program_loop(prog.statements, 1, Null_new, e, <<>>)}})

eval(prog, e) == eval_program(prog, e)

(***************************************************************************)
(* The inputs.  Every input is a source text; `shape' records how it was   *)
(* put together, for the properties to read.                               *)
(***************************************************************************)

MaxDepth == 2       \* if-blocks nested around the innermost statements
MaxStmts == 2       \* statements in the innermost block
MaxOperands == 4    \* operands of an expression of plain identifiers
MaxDressed == 3     \* operands of an expression of prefixed and called operands
MaxInt == 2         \* the arguments given to newAdder and addTwo
MaxLines == 3       \* lines typed into one REPL session

\* The statements of an innermost block.
InnerStmts == {"5;", "5 + true;", "let a = 6;", "a;", "return 7;"}

RECURSIVE StmtSeqs(_)
StmtSeqs(n) ==
    IF n = 0 THEN {""}
    ELSE StmtSeqs(n - 1) \cup
         {IF s = "" THEN x ELSE s \o " " \o x : s \in StmtSeqs(n - 1), x \in InnerStmts}

\* One if-expression statement around a body, taken by either branch, with
\* or without a statement after it.
Wraps(body) ==
    {w \o after : w \in {"if (true) { " \o body \o " }",
                         "if (false) { 1 } else { " \o body \o " }"},
                  after \in {"", " 9;"}}

RECURSIVE Wrapped(_, _)
Wrapped(bodies, depth) ==
    IF depth = 0 THEN bodies
    ELSE Wrapped(UNION {Wraps(b) : b \in bodies}, depth - 1)

NestedCases ==
    {[family |-> "nested", src |-> s] :
        s \in UNION {Wrapped(StmtSeqs(MaxStmts), k) : k \in 0..MaxDepth}}

\* return e; for an e of each type a source text can produce.
ReturnExprs ==
    {[src |-> "7", type |-> "INTEGER"], [src |-> "true", type |-> "BOOLEAN"],
     [src |-> "if (false) { 1 }", type |-> "NULL"],
     [src |-> "fn(x) { x }", type |-> "FUNCTION"]}

ReturnCases ==
    UNION {{[family |-> "return", src |-> s, type |-> x.type] :
                s \in UNION {Wrapped({"return " \o x.src \o ";"}, k) : k \in 0..MaxDepth}} :
           x \in ReturnExprs}

\* left operator right, for operands of each type a source text can produce.
Atoms ==
    {[src |-> "5", type |-> "INTEGER"], [src |-> "true", type |-> "BOOLEAN"],
     [src |-> "(if (false) { 1 })", type |-> "NULL"],
     [src |-> "fn(x) { x }", type |-> "FUNCTION"],
     [src |-> "len", type |-> "BUILTIN"]}

BinOps == {"+", "-", "*", "/", "<", ">", "==", "!="}

InfixCases ==
    {[family |-> "infix", src |-> l.src \o " " \o o \o " " \o r.src,
      left |-> l.type, operator |-> o, right |-> r.type] :
        l \in Atoms, o \in BinOps, r \in Atoms}

\* An operand is [src |-> its text, printed |-> its text fully parenthesised].
Names == <<"a", "b", "c", "d", "e", "f">>

PlainOperands(n) == [i \in 1..n |-> [src |-> Names[i], printed |-> Names[i]]]

DressedOperands ==
    {[src |-> "x", printed |-> "x"],
     [src |-> "-x", printed |-> "(-x)"],
     [src |-> "f(x)", printed |-> "f(x)"],
     [src |-> "!f(x + y * z)", printed |-> "(!f((x + (y * z))))"]}

\* One operator of each level, for the expressions of dressed operands.
LevelOps == {"==", "<", "+", "*"}

RECURSIVE ExprSource(_, _, _)
ExprSource(operands, ops, n) ==
    IF n = 1 THEN operands[1].src
    ELSE ExprSource(operands, ops, n - 1) \o " " \o ops[n - 1] \o " " \o operands[n].src

PlainCases ==
    UNION {{[family |-> "plain", src |-> ExprSource(PlainOperands(n), ops, n),
             operands |-> PlainOperands(n), ops |-> ops] :
                ops \in [1..(n - 1) -> BinOps]} : n \in 1..MaxOperands}

DressedCases ==
    UNION {{[family |-> "dressed", src |-> ExprSource(x[1], x[2], n),
             operands |-> x[1], ops |-> x[2]] :
                x \in [1..n -> DressedOperands] \X [1..(n - 1) -> LevelOps]} :
           n \in 1..MaxDressed}

\* newAdder of the closure test, called through a name and directly.
ClosureCases ==
    {[family |-> "closure", a |-> a, b |-> b,
      src |-> "let newAdder = fn(x) { fn(y) { x + y } }; " \o call[1]
              \o IntToString(a) \o call[2] \o IntToString(b) \o ");"] :
        a \in 0..MaxInt, b \in 0..MaxInt,
        call \in {<<"let addTwo = newAdder(", "); addTwo(">>,
                  <<"newAdder(", ")(">>}}

\* The calls of test_function_application, with the values the test wants.
ApplyCases ==
    {[family |-> "apply", want |-> 5, src |-> "let identity = fn(x) { x; }; identity(5);"],
     [family |-> "apply", want |-> 5,
      src |-> "let identity = fn(x) { return x; }; identity(5);"],
     [family |-> "apply", want |-> 10, src |-> "let double = fn(x) { x * 2; }; double(5);"],
     [family |-> "apply", want |-> 10, src |-> "let add = fn(x, y) { x + y; }; add(5, 5);"],
     [family |-> "apply", want |-> 20,
      src |-> "let add = fn(x, y) { x + y; }; add(5 + 5, add(5, 5));"],
     [family |-> "apply", want |-> 5, src |-> "fn(x) { x; }(5)"],
     [family |-> "apply", want |-> 1,
      src |-> "let first = fn(x, y) { return x; y; }; first(1, 2);"]}

\* A function literal, alone and through a binding.
FunctionCases ==
    {[family |-> "function", src |-> "fn(x) { x + 2; };", prints |-> "(x + 2)"],
     [family |-> "function", src |-> "let f = fn(x) { x + 2; }; f;", prints |-> "(x + 2)"],
     [family |-> "function", src |-> "fn(x, y) { x + y; };", prints |-> "(x + y)"]}

Quote == "\""

\* A string literal between double quotes.
StringCases ==
    {[family |-> "string", text |-> x, src |-> Quote \o x \o Quote] :
        x \in {"", "a", "hello world"}}

\* The calls of len of test_builtin_functions.
LenCases ==
    {[family |-> "len", src |-> "len(" \o Quote \o Quote \o ")", want |-> Integer_new(0)],
     [family |-> "len", src |-> "len(" \o Quote \o "four" \o Quote \o ")",
      want |-> Integer_new(4)],
     [family |-> "len", src |-> "len(" \o Quote \o "hello world" \o Quote \o ")",
      want |-> Integer_new(11)],
     [family |-> "len", src |-> "len(1)",
      want |-> new_error("argument to 'len' not supported, got INTEGER")],
     [family |-> "len", src |-> "len(true)",
      want |-> new_error("argument to 'len' not supported, got BOOLEAN")],
     [family |-> "len", src |-> "len()",
      want |-> new_error("wrong number of arguments. got=0, want=1")],
     [family |-> "len", src |-> "len(1, 2)",
      want |-> new_error("wrong number of arguments. got=2, want=1")],
     [family |-> "len",
      src |-> "len(" \o Quote \o "one" \o Quote \o ", " \o Quote \o "two" \o Quote \o ")",
      want |-> new_error("wrong number of arguments. got=2, want=1")]}

\* Expressions of every type of value but Error (which ! and if pass on),
\* each with what the claim calls it: falsy for Null and Boolean false.
TruthyValues ==
    {[src |-> "0", falsy |-> FALSE], [src |-> "5", falsy |-> FALSE],
     [src |-> "-5", falsy |-> FALSE],
     [src |-> "true", falsy |-> FALSE], [src |-> "false", falsy |-> TRUE],
     [src |-> "(1 < 2)", falsy |-> FALSE], [src |-> "(1 > 2)", falsy |-> TRUE],
     [src |-> "(if (false) { 1 })", falsy |-> TRUE],
     [src |-> "(if (true) { return false; })", falsy |-> FALSE],
     [src |-> "fn(x) { x }", falsy |-> FALSE],
     [src |-> "len", falsy |-> FALSE]}

\* !v, then an if with an else and an if without one on the condition v.
TruthyCases ==
    {[family |-> "truthy", falsy |-> v.falsy,
      src |-> "!" \o v.src \o "; if (" \o v.src \o ") { 10 } else { 20 }; if ("
                  \o v.src \o ") { 10 };"] : v \in TruthyValues}

\* Argument expressions that evaluate to an Error, with its message.
ErrorArguments ==
    {[src |-> "5 + true", message |-> "type mismatch: INTEGER + BOOLEAN"],
     [src |-> "-true", message |-> "unknown operator: -BOOLEAN"],
     [src |-> "zz", message |-> "identifier not found: zz"]}

\* A call of a builtin or of a function with one argument that is an Error,
\* first or after another, last or before one whose evaluation enters a block.
ArgumentErrorCases ==
    {[family |-> "argument error", message |-> a.message,
      src |-> callee \o "(" \o before \o a.src \o after \o ")"] :
        callee \in {"len", "fn(x, y, z) { x }"}, a \in ErrorArguments,
        before \in {"", "1, "}, after \in {"", ", if (true) { 2 }"}}

\* A call of a value that is neither a Function nor a Builtin, with no
\* argument, with arguments that yield values and with one that is an Error.
NotAFunctionCases ==
    {[family |-> "not a function", type |-> callee.type,
      src |-> callee.src \o "(" \o arguments \o ")"] :
        callee \in {[src |-> "5", type |-> "INTEGER"],
                    [src |-> "true", type |-> "BOOLEAN"],
                    [src |-> "(if (false) { 1 })", type |-> "NULL"]},
        arguments \in {"", "1", "1, true", "if (true) { 2 }", "zz", "1, 5 + true"}}

\* A function f whose body reads y, called from the body of a function g
\* that binds y as a local or as a parameter; y is bound nowhere else.
ScopeCases ==
    {[family |-> "scope", name |-> "y", src |-> s] :
        s \in {"let f = fn() { y }; let g = fn() { let y = 1; f() }; g()",
               "let f = fn(x) { y }; let g = fn(y) { f(1) }; g(2)",
               "let g = fn(f) { let y = 1; f() }; g(fn() { y })"}}

\* A ReturnValue as the value of a return, of a let, of an argument, of a
\* callee and of an operand, and a return in the body of a function called.
WrapperCases ==
    {[family |-> "wrapper", src |-> s] :
        s \in {"return if (true) { return 1; };",
               "let n = if (true) { return 7; }; 9;",
               "let f = fn(x) { return x; }; f(5); 9;",
               "let f = fn(x) { return x; }; f(5); if (true) { return 7; } 9;",
               "fn(x) { return x; }(if (true) { return 2; })",
               "len(if (true) { return 2; })",
               "(if (true) { return 1; })(3)",
               "let v = fn(x) { if (x) { return 1; } }(true); v",
               "(if (true) { return 1; }) + 1",
               "!(if (true) { return false; })"}}

\* Calls with fewer and with more arguments than parameters, with what
\* inspect prints for the value the call is to yield.
ArityCases ==
    {[family |-> "arity", src |-> "fn(x, y) { y }(1)",
      inspects |-> "ERROR: identifier not found: y"],
     [family |-> "arity", src |-> "let f = fn(x, y) { x + y }; f(1)",
      inspects |-> "ERROR: identifier not found: y"],
     [family |-> "arity", src |-> "let f = fn(x, y) { x }; f(1)", inspects |-> "1"],
     [family |-> "arity", src |-> "fn(x) { x }(1, 2)", inspects |-> "1"],
     [family |-> "arity", src |-> "let f = fn() { 5 }; f(1, 2)", inspects |-> "5"]}

\* A let of a value of each type an expression can yield, alone and after a
\* let of the same name; the value expressions are those of the test of let
\* statements and one for each other type.
LetValues ==
    {"5", "5 * 5", "true", "(if (false) { 1 })", "fn(x) { x }", "len",
     "5 + true", "zz", "-true", "if (true) { return 7; }"}

LetCases ==
    {[family |-> "let", rebinds |-> r, src |-> (IF r THEN "let a = 1; " ELSE "")
                                                  \o "let a = " \o v \o ";"] :
        v \in LetValues, r \in BOOLEAN}

\* A return with no value expression, in the program and in an if-block,
\* with statements after it.
BareReturnCases ==
    {[family |-> "bare return", src |-> s] :
        s \in {"return; 9;", "5; return; 9;", "if (true) { return; 8; } 9;",
               "if (true) { return; }", "return"}}

\* left / right for integers of either sign, the divisor 0 included.
DivisionCases ==
    {[family |-> "division", left |-> l, right |-> r,
      src |-> IntToString(l) \o " / " \o IntToString(r)] :
        l \in {-7, -1, 0, 5, 7}, r \in {-2, 0, 2, 5}}

\* Function literals with identifiers and with other tokens where the
\* parameters stand; test_function_parameter_parsing has the first three.
ParameterCases ==
    {[family |-> "parameters", src |-> s] :
        s \in {"fn() {};", "fn(x) {};", "fn(x, y, z) {};", "fn(1, 2) {}",
               "fn(x, 1) { x }", "fn(true) { 1 }", "fn(+) {}", "fn(x y) {}"}}

\* A function bound by let whose body reads its own name, called; the let
\* is a statement of the program or of the body of another function.
RecursionCases ==
    {[family |-> "recursion", src |-> s] :
        s \in {"let f = fn(n) { f }; f(1)",
               "let f = fn(n) { if (n) { f } else { f(true) } }; f(false)",
               "let g = fn() { let f = fn(n) { f }; f(1) }; g()"}}

Cases ==
    NestedCases \cup ReturnCases \cup InfixCases \cup PlainCases \cup DressedCases
        \cup ClosureCases \cup ApplyCases \cup FunctionCases \cup StringCases
        \cup LenCases \cup TruthyCases \cup ArgumentErrorCases \cup NotAFunctionCases
        \cup ScopeCases \cup WrapperCases \cup ArityCases \cup LetCases
        \cup BareReturnCases \cup DivisionCases \cup ParameterCases
        \cup RecursionCases

(***************************************************************************)
(* The host of the tests (test_eval): lex and parse the input, then        *)
(* evaluate the Program in a new Environment, whatever the parser said.    *)
(***************************************************************************)

NoObject == [type |-> "NONE"]

NoProgram == Program(<<>>)

Init ==
    /\ \E c \in Cases : shape = c /\ input = c.src
    /\ pc = "source"
    /\ program = NoProgram
    /\ errors = <<>>
    /\ outcome = NoObject
    /\ env = Environment_new
    /\ trace = <<>>
    /\ output = <<>>
    /\ bound = EmptyStore
    /\ nlines = 0
    /\ lex = Lexer_new("")
    /\ tokens = <<>>
    /\ parser = Parser_new(Lexer_new(""))

Parse ==
    /\ pc = "source"
    /\ \E parsed \in {parse_program(Parser_new(Lexer_new(input)))} :
           /\ program' = parsed.node
           /\ errors' = parsed.p.errors
    /\ pc' = "parsed"
    /\ UNCHANGED <<input, shape, outcome, env, trace, output, bound, nlines, lex,
                   tokens, parser>>

Eval ==
    /\ pc = "parsed"
    /\ \E evaluated \in {eval(program, env)} :
           /\ outcome' = evaluated.val
           /\ env' = evaluated.env
           /\ trace' = evaluated.trace
    /\ pc' = "done"
    /\ UNCHANGED <<input, shape, program, errors, output, bound, nlines, lex,
                   tokens, parser>>

Next == Parse \/ Eval

Spec == Init /\ [][Next]_vars

(***************************************************************************)
(* Repl::start: one Environment for the session; each line is lexed,       *)
(* parsed and, when the parser recorded no error, evaluated in it.         *)
(***************************************************************************)

PROMPT == ">> "

\* The lines typed, without the newline read_line leaves at their end.
ReplLines ==
    {"let a = 5;", "let a = 6;", "let b = a;", "a", "b", "a + b;", "let a 5",
     "let 5; let a 5",
     "let n = if (true) { return 7; };", "n", "let f = fn(x) { x }; f",
     "if (a) { let b = 1; }"}

\* The values the let statements of one eval yielded for the names they
\* bound in the Environment eval was given, the last one of each name.
RECURSIVE LetBindings(_, _, _)
LetBindings(t, i, acc) ==
    IF i > Len(t) THEN acc
    ELSE IF /\ t[i].ev = "exit"
            /\ t[i].depth = 0
            /\ t[i].stmt.node = "LetStatement"
            /\ t[i].stmt.value # None
            /\ ~panicked(t[i].val)
            /\ ~is_error(t[i].val)
        THEN LetBindings(t, i + 1, (t[i].stmt.name.value :> t[i].val) @@ acc)
    ELSE LetBindings(t, i + 1, acc)

InitRepl ==
    /\ shape = [family |-> "repl"]
    /\ input = ""
    /\ pc = "prompt"
    /\ program = NoProgram
    /\ errors = <<>>
    /\ outcome = NoObject
    /\ env = Environment_new
    /\ trace = <<>>
    /\ output = <<"Ruskey Console\n", "Type command below\n", PROMPT>>
    /\ bound = EmptyStore
    /\ nlines = 0
    /\ lex = Lexer_new("")
    /\ tokens = <<>>
    /\ parser = Parser_new(Lexer_new(""))

\* What start writes for the errors of the parser, up to the next prompt.
print_parser_errors(errs) ==
    <<"Parser errors:\n">> \o [i \in DOMAIN errs |-> "\t" \o errs[i] \o "\n"]
        \o <<PROMPT>>

\* One turn of the loop as it would be if eval were called whatever the
\* parser recorded: the errors are printed, then the program is evaluated.
ReplLine_eval_whatever_errors ==
    /\ pc = "prompt"
    /\ nlines < MaxLines
    /\ \E typed \in ReplLines :
        \E parsed \in {parse_program(Parser_new(Lexer_new(typed \o "\n")))} :
        \E evaluated \in {eval(parsed.node, env)} :
            /\ input' = typed \o "\n"
            /\ program' = parsed.node
            /\ errors' = parsed.p.errors
            /\ outcome' = evaluated.val
            /\ env' = evaluated.env
            /\ trace' = evaluated.trace
            /\ bound' = LetBindings(evaluated.trace, 1, bound)
            /\ pc' = IF panicked(evaluated.val) THEN "panicked" ELSE "prompt"
            /\ output' =
                 output
                   \o (IF parsed.p.errors # <<>>
                           THEN SubSeq(print_parser_errors(parsed.p.errors), 1,
                                       Len(parsed.p.errors) + 1)
                           ELSE <<>>)
                   \o (IF panicked(evaluated.val) THEN <<>>
                       ELSE IF evaluated.val.type # "FUNCTION"
                           THEN <<inspect(evaluated.val) \o "\n", PROMPT>>
                       ELSE <<PROMPT>>)
    /\ nlines' = nlines + 1
    /\ UNCHANGED <<shape, lex, tokens, parser>>

\* One turn of the loop for a line read: up to the next prompt.
ReplLine ==
    /\ pc = "prompt"
    /\ nlines < MaxLines
    /\ \E typed \in ReplLines :
        \E parsed \in {parse_program(Parser_new(Lexer_new(typed \o "\n")))} :
            /\ input' = typed \o "\n"
            /\ program' = parsed.node
            /\ errors' = parsed.p.errors
            /\ IF parsed.p.errors # <<>>
                   THEN /\ output' = output \o print_parser_errors(parsed.p.errors)
                        /\ outcome' = NoObject
                        /\ trace' = <<>>
                        /\ pc' = "prompt"
                        /\ UNCHANGED <<env, bound>>
                   ELSE \E evaluated \in {eval(parsed.node, env)} :
                        /\ outcome' = evaluated.val
                        /\ env' = evaluated.env
                        /\ trace' = evaluated.trace
                        /\ bound' = LetBindings(evaluated.trace, 1, bound)
                        /\ IF panicked(evaluated.val)
                               THEN pc' = "panicked" /\ UNCHANGED output
                               ELSE /\ pc' = "prompt"
                                    /\ output' =
                                         IF evaluated.val.type # "FUNCTION"
                                             THEN output
                                                    \o <<inspect(evaluated.val) \o "\n",
                                                         PROMPT>>
                                             ELSE output \o <<PROMPT>>
    /\ nlines' = nlines + 1
    /\ UNCHANGED <<shape, lex, tokens, parser>>

\* read_line returns 0: start returns Ok(()).
ReplEof ==
    /\ pc = "prompt"
    /\ pc' = "eof"
    /\ UNCHANGED <<input, shape, program, errors, outcome, env, trace, output, bound,
                   nlines, lex, tokens, parser>>

NextRepl == ReplLine \/ ReplEof

SpecRepl == InitRepl /\ [][NextRepl]_vars

(***************************************************************************)
(* A host that calls next_token on a Lexer, as the tests of the lexer and  *)
(* the lexer mode of the REPL do, and goes on calling it past the end.     *)
(***************************************************************************)

MaxSourceLen == 3   \* the bytes of a source text given to the lexer
MaxTokens == 6      \* the calls of next_token on one lexer

\* One byte of each kind the lexer tells apart: letter, digit, whitespace,
\* quote, a byte that may start a two-byte token, a one-byte token.
SourceBytes == {"a", "5", "_", " ", "\"", "=", ";", "@"}

\* The texts of n bytes.
RECURSIVE Sources(_)
Sources(n) ==
    IF n = 0 THEN {""}
    ELSE Sources(n - 1) \cup {t \o b : t \in Sources(n - 1), b \in SourceBytes}

InitLexer ==
    /\ shape = [family |-> "lexer"]
    /\ input \in Sources(MaxSourceLen)
    /\ pc = "lexing"
    /\ program = NoProgram
    /\ errors = <<>>
    /\ outcome = NoObject
    /\ env = Environment_new
    /\ trace = <<>>
    /\ output = <<>>
    /\ bound = EmptyStore
    /\ nlines = 0
    /\ lex = Lexer_new(input)
    /\ tokens = <<>>
    /\ parser = Parser_new(Lexer_new(""))

\* let tok = lexer.next_token();
LexerNext ==
    /\ Len(tokens) < MaxTokens
    /\ \E r \in {Lexer_next_token(lex)} :
           /\ lex' = r.lexer
           /\ tokens' = Append(tokens, r.tok)
    /\ UNCHANGED <<input, shape, pc, program, errors, outcome, env, trace, output,
                   bound, nlines, parser>>

NextLexer == LexerNext

SpecLexer == InitLexer /\ [][NextLexer]_vars

(***************************************************************************)
(* The statement loops of the parser, one iteration at a time: the loop of *)
(* parse_program from the first token of a text, and the loop of           *)
(* parse_block_statement from a text that starts at the brace of a block.  *)
(***************************************************************************)

MaxPieces == 3      \* the pieces of a text given to the parser

\* Tokens that start or end a statement or a block, well placed or not.
Pieces == {"let", "a", "=", "5", ";", "{", "}", "(", "if", "fn"}

\* The texts of n pieces, each followed by a space.
RECURSIVE Texts(_)
Texts(n) ==
    IF n = 0 THEN {""}
    ELSE Texts(n - 1) \cup {t \o piece \o " " : t \in Texts(n - 1), piece \in Pieces}

InitParser ==
    /\ shape = [family |-> "parser"]
    /\ input \in Texts(MaxPieces)
    /\ \/ /\ pc = "program"
          /\ parser = Parser_new(Lexer_new(input))
       \/ /\ pc = "block"
          /\ Parser_new(Lexer_new(input)).cur_token.token_type = "Lbrace"
          /\ parser = Parser_next_token(Parser_new(Lexer_new(input)))
    /\ program = NoProgram
    /\ errors = <<>>
    /\ outcome = NoObject
    /\ env = Environment_new
    /\ trace = <<>>
    /\ output = <<>>
    /\ bound = EmptyStore
    /\ nlines = 0
    /\ lex = Lexer_new("")
    /\ tokens = <<>>

\* One iteration of the while loop of parse_program as it would be if
\* next_token were called only after a statement that parsed.
ParseProgramStep_advance_on_success ==
    /\ pc = "program"
    /\ parser.cur_token.token_type # "Eof"
    /\ \E stmt \in {parse_statement(parser)} :
           /\ program' = IF stmt.node = None THEN program
                          ELSE Program(Append(program.statements, stmt.node))
           /\ parser' = IF stmt.node = None THEN stmt.p ELSE Parser_next_token(stmt.p)
           /\ errors' = stmt.p.errors
    /\ UNCHANGED <<input, shape, pc, outcome, env, trace, output, bound, nlines, lex,
                   tokens>>

\* One iteration of the while loop of parse_program.
ParseProgramStep ==
    /\ pc = "program"
    /\ parser.cur_token.token_type # "Eof"
    /\ \E stmt \in {parse_statement(parser)} :
           /\ program' = IF stmt.node = None THEN program
                          ELSE Program(Append(program.statements, stmt.node))
           /\ parser' = Parser_next_token(stmt.p)
           /\ errors' = stmt.p.errors
    /\ UNCHANGED <<input, shape, pc, outcome, env, trace, output, bound, nlines, lex,
                   tokens>>

\* One iteration of the while loop of parse_block_statement; program holds
\* the statements of the block.
ParseBlockStep ==
    /\ pc = "block"
    /\ ~cur_token_is(parser, "Rbrace") /\ ~cur_token_is(parser, "Eof")
    /\ \E stmt \in {parse_statement(parser)} :
           /\ program' = IF stmt.node = None THEN program
                          ELSE Program(Append(program.statements, stmt.node))
           /\ parser' = Parser_next_token(stmt.p)
           /\ errors' = stmt.p.errors
    /\ UNCHANGED <<input, shape, pc, outcome, env, trace, output, bound, nlines, lex,
                   tokens>>

\* The condition of the loop is false: the function returns.
ParseLoopEnd ==
    /\ \/ pc = "program" /\ parser.cur_token.token_type = "Eof"
       \/ pc = "block" /\ (cur_token_is(parser, "Rbrace") \/ cur_token_is(parser, "Eof"))
    /\ pc' = pc \o " parsed"
    /\ UNCHANGED <<input, shape, program, errors, outcome, env, trace, output, bound,
                   nlines, lex, tokens, parser>>

NextParser == ParseProgramStep \/ ParseBlockStep \/ ParseLoopEnd

SpecParser == InitParser /\ [][NextParser]_vars

(***************************************************************************)
(* A host that uses an Environment through its methods: set, get and       *)
(* new_enclosed around the environment it holds.  `bound' records, scope   *)
(* by scope from the root to the local one, the values given to set.       *)
(***************************************************************************)

MaxOps == 4         \* the calls of one run
MaxScopes == 2      \* the scopes enclosed around the root

\* A name no builtin has and the name of a builtin.
EnvNames == {"x", "len"}

\* Values of the types a let statement or a parameter can give to set.
EnvValues ==
    <<Integer_new(5), Boolean_new(TRUE), StringObj_new("s"),
      ReturnValue_new(Integer_new(7))>>

\* The number of scopes on the chain of e.
RECURSIVE scopes(_)
scopes(e) == IF e.outer = None THEN 1 ELSE 1 + scopes(e.outer)

InitEnv ==
    /\ shape = [family |-> "env"]
    /\ input = ""
    /\ pc = "new"
    /\ program = NoProgram
    /\ errors = <<>>
    /\ outcome = NoObject
    /\ env = Environment_new
    /\ trace = <<>>
    /\ output = <<>>
    /\ bound = <<EmptyStore>>
    /\ nlines = 0
    /\ lex = Lexer_new("")
    /\ tokens = <<>>
    /\ parser = Parser_new(Lexer_new(""))

\* env.set(name, val): input is the name, outcome the value set returns.
EnvSet ==
    /\ nlines < MaxOps
    /\ \E name \in EnvNames, v \in DOMAIN EnvValues :
           /\ env' = Environment_set(env, name, EnvValues[v])
           /\ input' = name
           /\ outcome' = EnvValues[v]
           /\ bound' = [bound EXCEPT ![Len(bound)] = (name :> EnvValues[v]) @@ @]
    /\ pc' = "set"
    /\ nlines' = nlines + 1
    /\ UNCHANGED <<shape, program, errors, trace, output, lex, tokens, parser>>

\* env.get(&name): outcome is the value, NoObject for Option::None.
EnvGet ==
    /\ nlines < MaxOps
    /\ \E name \in EnvNames :
       \E got \in {Environment_get(env, name)} :
           /\ input' = name
           /\ outcome' = IF got.found THEN got.val ELSE NoObject
    /\ pc' = "got"
    /\ nlines' = nlines + 1
    /\ UNCHANGED <<shape, program, errors, env, trace, output, bound, lex, tokens, parser>>

\* Environment::new_enclosed(Rc::new(RefCell::new(env))): the host goes on
\* with the enclosed environment.
EnvEnclose ==
    /\ nlines < MaxOps
    /\ scopes(env) <= MaxScopes
    /\ env' = new_enclosed(env)
    /\ bound' = Append(bound, EmptyStore)
    /\ pc' = "enclosed"
    /\ nlines' = nlines + 1
    /\ UNCHANGED <<input, shape, program, errors, outcome, trace, output, lex,
                   tokens, parser>>

\* eval_identifier(&Identifier { value: name, .. }, &mut env): outcome is
\* the value it returns.
EnvIdentifier ==
    /\ nlines < MaxOps
    /\ \E name \in EnvNames :
           /\ input' = name
           /\ outcome' = eval_identifier(Identifier(Token_new("Ident", name), name), env)
    /\ pc' = "identifier"
    /\ nlines' = nlines + 1
    /\ UNCHANGED <<shape, program, errors, env, trace, output, bound, lex, tokens, parser>>

NextEnv == EnvSet \/ EnvGet \/ EnvEnclose \/ EnvIdentifier

SpecEnv == InitEnv /\ [][NextEnv]_vars

(***************************************************************************)
(* Properties.                                                             *)
(***************************************************************************)

\* C1: a closure keeps the argument of the call that created it: with
\* newAdder = fn(x) { fn(y) { x + y } }, calling newAdder(a) and then the
\* function it returned with b evaluates to Integer(a + b).
ClosureKeepsOuterArgument ==
    (pc = "done" /\ shape.family = "closure")
        => outcome = Integer_new(shape.a + shape.b)

\* C2: applying a function of n parameters to n arguments evaluates the
\* statements of its body with the i-th parameter bound to the i-th argument,
\* and yields the value of the last statement or of the first return executed
\* (identity(5) is 5, add(5 + 5, add(5, 5)) is 20, fn(x) { x; }(5) is 5).
ApplicationYieldsBodyValue ==
    (pc = "done" /\ shape.family = "apply")
        => /\ outcome = Integer_new(shape.want)
           /\ \E i \in DOMAIN trace : trace[i].ev = "enter" /\ trace[i].depth > 0

\* The function literal of an input of FunctionCases.
LiteralOf(prog) ==
    IF prog.statements[1].node = "LetStatement" THEN prog.statements[1].value
    ELSE prog.statements[1].expression

\* C3: the Function value of a function literal carries the literal's
\* parameter names in order and a body with the statements of the literal's
\* body, which print as the literal's do ("(x + 2)" for fn(x) { x + 2; }),
\* also after the value went through set and get.
FunctionCarriesLiteral ==
    (pc = "done" /\ shape.family = "function")
        => /\ outcome.type = "FUNCTION"
           /\ outcome.parameters = LiteralOf(program).parameters
           /\ outcome.body.statements = LiteralOf(program).body.statements
           /\ Concat([i \in DOMAIN outcome.body.statements |->
                        Display(outcome.body.statements[i])]) = shape.prints

\* C5: once a statement return e; has been executed at the top level or in
\* nested if-blocks of the program, eval yields the value of e, of whatever
\* type, and no statement is evaluated after the return.
ReturnYieldsValue ==
    pc = "done" =>
        \A i \in DOMAIN trace :
            (/\ trace[i].ev = "exit"
             /\ trace[i].depth = 0
             /\ trace[i].stmt.node = "ReturnStatement"
             /\ trace[i].val.type = "RETURN_VALUE")
                => /\ outcome = trace[i].val.value
                   /\ \A j \in DOMAIN trace : j > i => trace[j].ev # "enter"

\* The operators the claim lists for a pair of operands of one type.
SupportedOperators(type) ==
    CASE type = "INTEGER" -> {"+", "-", "*", "/", "<", ">", "==", "!="}
      [] type = "STRING" -> {"+"}
      [] type = "BOOLEAN" -> {"==", "!="}
      [] OTHER -> {}

\* C6: operands of different types give Error "type mismatch: L op R";
\* operands of one type with an operator that type does not support give
\* Error "unknown operator: L op R"; a supported operator gives no Error.
InfixDispatch ==
    (pc = "done" /\ shape.family = "infix")
        => LET sig == shape.left \o " " \o shape.operator \o " " \o shape.right
           IN  IF shape.left # shape.right
                   THEN outcome = new_error("type mismatch: " \o sig)
               ELSE IF shape.operator \notin SupportedOperators(shape.left)
                   THEN outcome = new_error("unknown operator: " \o sig)
               ELSE outcome.type # "ERROR"

\* C4: when a statement of a Program or Block yields an Error, the Program
\* or Block ends there with that Error as its result, without entering
\* another statement, at any nesting depth; the Error of a statement of the
\* Program is the result of eval.
ErrorStopsBlock ==
    \A i \in DOMAIN trace :
        (trace[i].ev = "exit" /\ is_error(trace[i].val))
            => /\ i < Len(trace)
               /\ trace[i + 1].ev = "end"
               /\ trace[i + 1].val = trace[i].val
               /\ trace[i + 1].depth = trace[i].depth
               /\ (pc = "done" /\ i + 1 = Len(trace)) => outcome = trace[i].val

\* An Error two if-blocks deep, with statements after it in its block and
\* after each of the if-blocks around it.
WitnessErrorStopsBlock ==
    /\ pc = "done"
    /\ input = "if (true) { if (true) { 5 + true; 5; } 9; } 9;"
    /\ outcome = new_error("type mismatch: INTEGER + BOOLEAN")
    /\ \E i \in DOMAIN trace : trace[i].ev = "exit" /\ is_error(trace[i].val)

\* The levels of the binary operators as the claim orders them.
OperatorLevel(op) ==
    CASE op \in {"==", "!="} -> 1
      [] op \in {"<", ">"} -> 2
      [] op \in {"+", "-"} -> 3
      [] op \in {"*", "/"} -> 4

\* The last of the operators of the lowest level among ops[lo..hi-1]: the
\* operator applied last when levels bind tighter upwards and operators of
\* one level group left to right.
SplitAt(ops, lo, hi) ==
    CHOOSE k \in lo..(hi - 1) :
        /\ \A j \in lo..(hi - 1) : OperatorLevel(ops[k]) <= OperatorLevel(ops[j])
        /\ \A j \in (k + 1)..(hi - 1) : OperatorLevel(ops[k]) < OperatorLevel(ops[j])

\* The fully parenthesised form of operands[lo..hi] joined by ops[lo..hi-1].
RECURSIVE Grouped(_, _, _, _)
Grouped(operands, ops, lo, hi) ==
    IF lo = hi THEN operands[lo].printed
    ELSE LET k == SplitAt(ops, lo, hi)
         IN  "(" \o Grouped(operands, ops, lo, k) \o " " \o ops[k] \o " "
                 \o Grouped(operands, ops, k + 1, hi) \o ")"

\* C7: an expression of operands, prefix operators, binary operators and
\* calls parses without error into the tree that groups by the order
\* equality < relational < additive < multiplicative < prefix < call and
\* groups operators of one level left to right: it prints fully parenthesised.
PrecedenceGrouping ==
    (pc # "source" /\ shape.family \in {"plain", "dressed"})
        => /\ errors = <<>>
           /\ Program_Display(program) =
                  Grouped(shape.operands, shape.ops, 1, Len(shape.operands))

\* Two operators of one level, a prefix operator, calls, and operators of
\* two levels inside the arguments of a call.
WitnessPrecedenceGrouping ==
    /\ pc = "parsed"
    /\ input = "-x + f(x) + !f(x + y * z)"
    /\ errors = <<>>
    /\ Program_Display(program) = "(((-x) + f(x)) + (!f((x + (y * z)))))"

\* C8: a source text that is a string literal between double quotes parses
\* without error into one expression statement whose expression is a
\* StringLiteral of exactly the text between the quotes, and evaluates to
\* the String of that text.
StringLiteralParses ==
    (pc # "source" /\ shape.family = "string")
        => /\ errors = <<>>
           /\ Len(program.statements) = 1
           /\ program.statements[1].node = "ExpressionStatement"
           /\ program.statements[1].expression.node = "StringLiteral"
           /\ program.statements[1].expression.value = shape.text
           /\ pc = "done" => outcome = StringObj_new(shape.text)

\* C9: the source text of a call of len evaluates to Integer(length of s)
\* for the one string literal s, to Error "argument to 'len' not supported,
\* got TYPE" for one argument that is not a String, and to Error "wrong
\* number of arguments. got=n, want=1" for n # 1 arguments.
LenOfSource ==
    (pc = "done" /\ shape.family = "len") => outcome = shape.want

\* C10: bindings persist across the eval calls on one Environment: a name a
\* let statement of an earlier line bound evaluates, in the session's
\* Environment, to the value that let yielded, until a let binds it again.
BindingsPersist ==
    pc \in {"prompt", "eof"} =>
        \A n \in DOMAIN bound :
            eval_identifier(Identifier(Token_new("Ident", n), n), env) = bound[n]

\* C11: in the loop of start, a line whose parse recorded errors has them
\* printed in order under "Parser errors:", eval is not called for it and the
\* session's Environment is as it was before the line; eval is called only
\* for a line whose parse recorded no error.
ParseErrorsSkipEval ==
    [][(nlines' = nlines + 1 /\ errors' # <<>>)
           => /\ trace' = <<>>
              /\ outcome' = NoObject
              /\ env' = env
              /\ Len(output') = Len(output) + Len(errors') + 2
              /\ SubSeq(output', 1, Len(output)) = output
              /\ output'[Len(output) + 1] = "Parser errors:\n"
              /\ \A i \in DOMAIN errors' :
                     output'[Len(output) + 1 + i] = "\t" \o errors'[i] \o "\n"
              /\ output'[Len(output')] = PROMPT]_vars

\* A line with two parser errors, read when the Environment binds a name.
WitnessParseErrorsSkipEval ==
    /\ pc = "prompt"
    /\ input = "let 5; let a 5\n"
    /\ Len(errors) = 2
    /\ trace = <<>>
    /\ "a" \in DOMAIN env.store

\* The scopes of the record of set, root first, that bind name.
BindingScopes(name) == {i \in DOMAIN bound : name \in DOMAIN bound[i]}

\* a and b are the same object: of one type and equal.
SameObject(a, b) == a.type = b.type /\ a = b

\* C12: get(name) returns the value given to set for name in the innermost
\* scope of the chain that binds name (so the v of set(name, v) right after
\* it, and the local binding when an ancestor binds name too), and returns
\* not found exactly when no scope of the chain binds name.
GetReturnsInnermostBinding ==
    pc = "got" =>
        IF BindingScopes(input) = {}
            THEN outcome = NoObject
            ELSE \E i \in BindingScopes(input) :
                     /\ \A j \in BindingScopes(input) : j <= i
                     /\ SameObject(outcome, bound[i][input])

\* C13: set(name, v) changes only the local bindings of the environment:
\* its parent, and so every ancestor, is after the call what it was before,
\* also when an ancestor binds name.
SetChangesOnlyLocalScope ==
    [][pc' = "set"
           => /\ env'.outer = env.outer
              /\ input' \in DOMAIN env'.store
              /\ \A n \in DOMAIN env'.store \ {input'} :
                     n \in DOMAIN env.store
                         /\ SameObject(env'.store[n], env.store[n])]_vars

\* set(name, v), new_enclosed, set(name, w): the second set acted on an
\* environment that did not bind name while its parent did.
WitnessSetChangesOnlyLocalScope ==
    /\ pc = "set"
    /\ env.outer # None
    /\ input \in DOMAIN env.outer.store
    /\ input \in DOMAIN env.store
    /\ nlines = 3

\* C14: once the lexer is at the end of the input (ch is the 0 read_char
\* stores there), each call of next_token returns an Eof token with an empty
\* literal and leaves the lexer at the end, however many calls follow; a
\* lexer that returned an Eof token is at the end.
EofForever ==
    [][Len(tokens') = Len(tokens) + 1
           => /\ lex.ch = NUL
                    => /\ tokens'[Len(tokens')] = Token_new("Eof", "")
                       /\ lex'.ch = NUL
              /\ tokens'[Len(tokens')].token_type = "Eof" => lex'.ch = NUL]_vars

\* Three calls past the end of a text that ends in whitespace.
WitnessEofForever ==
    /\ input = "a5 "
    /\ Len(tokens) = 5
    /\ tokens[1] = Token_new("Ident", "a")
    /\ tokens[2] = Token_new("Int", "5")
    /\ \A i \in 3..5 : tokens[i] = Token_new("Eof", "")

\* The scopes on the chain of e, the local one first.
RECURSIVE ScopeChain(_)
ScopeChain(e) == IF e.outer = None THEN <<e.store>> ELSE <<e.store>> \o ScopeChain(e.outer)

\* What the claim gives for the identifier name in the environment e.
IdentifierValue(name, e) ==
    LET chain == ScopeChain(e)
        binding == {i \in DOMAIN chain : name \in DOMAIN chain[i]}
    IN  IF binding # {}
            THEN chain[CHOOSE i \in binding : \A j \in binding : i <= j][name]
        ELSE IF name = "len" THEN Builtin_new("len_function")
        ELSE new_error("identifier not found: " \o name)

\* C15: an identifier evaluates to the value its name is bound to in the
\* scope chain when it is bound, also when a builtin has that name; else to
\* the Builtin of that name; else to Error "identifier not found: name".
IdentifierLookup ==
    pc = "identifier" => SameObject(outcome, IdentifierValue(input, env))

\* len evaluated where the parent scope binds len and the local one does
\* not: the value is the parent's, not the builtin.
WitnessIdentifierLookup ==
    /\ pc = "identifier"
    /\ input = "len"
    /\ env.outer # None
    /\ "len" \notin DOMAIN env.store
    /\ "len" \in DOMAIN env.outer.store
    /\ outcome = Integer_new(5)

\* The value eval_statement returned for the k-th statement of the program.
StatementValue(k) ==
    trace[CHOOSE i \in DOMAIN trace :
              trace[i].ev = "exit" /\ trace[i].stmt = program.statements[k]].val

\* C16: truthiness is the same in ! and in if: !v is Boolean true exactly
\* when v is Null or Boolean false (so false for the integer 0), and an if
\* on the condition v evaluates its consequence exactly when !v is false,
\* else its alternative, else yields Null.
TruthinessAgrees ==
    (pc = "done" /\ shape.family = "truthy")
        => /\ errors = <<>>
           /\ Len(program.statements) = 3
           /\ StatementValue(1) = Boolean_new(shape.falsy)
           /\ SameObject(StatementValue(2),
                         IF StatementValue(1) = Boolean_new(FALSE)
                             THEN Integer_new(10) ELSE Integer_new(20))
           /\ SameObject(StatementValue(3),
                         IF StatementValue(1) = Boolean_new(FALSE)
                             THEN Integer_new(10) ELSE Null_new)

\* The integer 0 as the operand of ! and as the condition of both ifs.
WitnessTruthinessAgrees ==
    /\ pc = "done"
    /\ input = "!0; if (0) { 10 } else { 20 }; if (0) { 10 };"
    /\ StatementValue(1) = Boolean_new(FALSE)
    /\ StatementValue(2) = Integer_new(10)
    /\ outcome = Integer_new(10)

\* The tokens from the current one to the end of the input, Eof not counted.
RECURSIVE RemainingTokens(_)
RemainingTokens(p) ==
    IF p.cur_token.token_type = "Eof" THEN 0
    ELSE 1 + RemainingTokens(Parser_next_token(p))

\* C17: each iteration of the statement loop of parse_program and of
\* parse_block_statement moves the current token on by at least one token,
\* whether the statement parsed or not, so the loops end on every text: that
\* of parse_program at Eof, with the statements and the errors parse_program
\* returns, that of a block at its closing brace or at Eof, with the
\* statements parse_block_statement returns.
StatementLoopsAdvance ==
    [][/\ parser' # parser => RemainingTokens(parser') < RemainingTokens(parser)
       /\ errors' # errors => parser' # parser
       /\ pc' = "program parsed"
              => /\ parser.cur_token.token_type = "Eof"
                 /\ program = parse_program(Parser_new(Lexer_new(input))).node
                 /\ errors = parse_program(Parser_new(Lexer_new(input))).p.errors
       /\ pc' = "block parsed"
              => /\ parser.cur_token.token_type \in {"Rbrace", "Eof"}
                 /\ program.statements =
                        parse_block_statement(Parser_new(Lexer_new(input)))
                            .node.statements]_vars

\* A let statement that does not parse, and the two statements after it.
WitnessStatementLoopsAdvance ==
    /\ pc = "program parsed"
    /\ input = "let 5 a "
    /\ errors = <<"expected next token to be Ident, got Int instead">>
    /\ Program_Display(program) = "5a"

\* C18: a Function made by a function literal evaluated in environment E
\* holds E itself and not a copy of its bindings: in every later state each
\* name E binds is found through the Function's environment, with the value
\* E gives it.  Here E is the session's Environment, where every function
\* literal of the lines typed is evaluated and bound.
CapturedEnvironmentIsShared ==
    pc \in {"prompt", "eof"} =>
        \A f \in DOMAIN env.store :
            env.store[f].type = "FUNCTION" =>
                \A m \in DOMAIN env.store :
                    /\ Environment_get(env.store[f].env, m).found
                    /\ SameObject(Environment_get(env.store[f].env, m).val,
                                  Environment_get(env, m).val)

\* The statements eval_statement was entered for in a trace.
Entered(t) == {i \in DOMAIN t : t[i].ev = "enter"}

\* C19: a call with an argument that evaluates to an Error yields that
\* Error, with its message: the arguments after it are not evaluated (no
\* statement but the call's own is entered) and the callee is not applied.
ArgumentErrorIsResult ==
    (pc = "done" /\ shape.family = "argument error")
        => /\ outcome = Error_new(shape.message)
           /\ Cardinality(Entered(trace)) = 1

\* C20: a call of a value that is neither a Function nor a Builtin yields
\* Error "not a function: <TYPE>" whatever its arguments are, and the
\* arguments are not evaluated: no statement but the call's own is entered.
NotAFunctionBeforeArguments ==
    (pc = "done" /\ shape.family = "not a function")
        => /\ outcome = Error_new("not a function: " \o shape.type)
           /\ Cardinality(Entered(trace)) = 1

IsCallValue(event) ==
    /\ event.ev = "exit"
    /\ \/ /\ event.stmt.node = "ExpressionStatement"
          /\ event.stmt.expression.node = "CallExpression"
       \/ /\ event.stmt.node = "LetStatement"
          /\ event.stmt.value # None
          /\ event.stmt.value.node = "CallExpression"

\* C22: the value eval returns is never a ReturnValue, and neither is the
\* value of a call expression: the wrapper is taken off where a function
\* returns and where the program does.
ReturnValueNeverEscapes ==
    /\ pc = "done" => outcome.type # "RETURN_VALUE"
    /\ \A i \in DOMAIN trace :
           IsCallValue(trace[i]) => trace[i].val.type # "RETURN_VALUE"

\* A call of a function that returns, then a return in an if-block of the
\* program: the block yields the ReturnValue and eval its value.
WitnessReturnValueNeverEscapes ==
    /\ pc = "done"
    /\ input = "let f = fn(x) { return x; }; f(5); if (true) { return 7; } 9;"
    /\ outcome = Integer_new(7)
    /\ \E i \in DOMAIN trace : IsCallValue(trace[i])
    /\ \E i \in DOMAIN trace : trace[i].ev = "end" /\ trace[i].val.type = "RETURN_VALUE"

\* C23: a call with fewer arguments than parameters binds the first
\* parameters in order and leaves the others unbound, so a body that reads
\* an unbound parameter yields Error "identifier not found: <name>" (no
\* error about the number of arguments) and one that reads only bound
\* parameters yields its value; a call with more arguments than parameters
\* drops the extra ones and yields the value of the body.
ArityMismatch ==
    (pc = "done" /\ shape.family = "arity") => inspect(outcome) = shape.inspects

\* C24: a let statement whose value expression yields an Error yields that
\* Error and leaves the environment as it was (the name unbound, or bound to
\* what it was bound to); any other let binds the name in the environment it
\* is evaluated in, and the value of the statement is the value bound.
LetBindsOrFails ==
    (pc = "done" /\ shape.family = "let")
        => IF is_error(StatementValue(Len(program.statements)))
               THEN /\ outcome = StatementValue(Len(program.statements))
                    /\ env = IF shape.rebinds
                                 THEN Environment_set(Environment_new, "a",
                                                      Integer_new(1))
                                 ELSE Environment_new
               ELSE /\ "a" \in DOMAIN env.store
                    /\ SameObject(env.store["a"],
                                  StatementValue(Len(program.statements)))

\* C25: a return statement with no value expression yields Null wrapped in
\* a ReturnValue, so its block and the program end there: no statement is
\* entered after it and eval yields Null.
BareReturnStops ==
    (pc = "done" /\ shape.family = "bare return")
        => \A i \in DOMAIN trace :
               (/\ trace[i].ev = "exit"
                /\ trace[i].stmt.node = "ReturnStatement"
                /\ trace[i].stmt.return_value = None)
                   => /\ trace[i].val = ReturnValue_new(Null_new)
                      /\ \A j \in DOMAIN trace : j > i => trace[j].ev # "enter"
                      /\ outcome = Null_new

\* The bytes of s from index i on that are letters, underscores or digits,
\* up to the first byte that is none of these.
RECURSIVE NameRun(_, _)
NameRun(s, i) ==
    IF i < Len(s) /\ (is_letter(ByteAt(s, i)) \/ ByteAt(s, i) \in AsciiDigit)
        THEN ByteAt(s, i) \o NameRun(s, i + 1)
        ELSE ""

\* C26: a text that starts with a letter or an underscore lexes first to
\* one Ident (or keyword) token whose literal is the longest run of letters,
\* underscores and digits at its start: a5 is one identifier a5.
IdentifierTakesDigits ==
    (tokens # <<>> /\ input # "" /\ is_letter(ByteAt(input, 0)))
        => tokens[1] = Token_new(lookup_ident(NameRun(input, 0)), NameRun(input, 0))

\* s without its whitespace bytes.
RECURSIVE WithoutWhitespace(_)
WithoutWhitespace(s) ==
    IF s = "" THEN ""
    ELSE (IF ByteAt(s, 0) \in AsciiWhitespace THEN "" ELSE ByteAt(s, 0))
             \o WithoutWhitespace(SubSeq(s, 2, Len(s)))

\* C27: the literal of every token but Eof and String is the text the lexer
\* consumed for it, an Illegal token's being the byte that is not recognised,
\* after which lexing goes on: once Eof is reached on a text without a
\* string, the literals of the tokens in order make up the text without its
\* whitespace.
LiteralIsSourceText ==
    (/\ tokens # <<>>
     /\ tokens[Len(tokens)].token_type = "Eof"
     /\ \A i \in DOMAIN tokens : tokens[i].token_type # "String")
        => Concat([i \in DOMAIN tokens |-> tokens[i].literal]) = WithoutWhitespace(input)

\* The quotient of a by b # 0 rounded toward zero.
TruncatedQuotient(a, b) ==
    CHOOSE q \in -7..7 :
        \E r \in -7..7 : /\ a = q * b + r
                         /\ (IF r < 0 THEN 0 - r ELSE r) < (IF b < 0 THEN 0 - b ELSE b)
                         /\ (r = 0 \/ (r < 0) = (a < 0))

\* C28: the division of two Integers always returns a value: an Error when
\* the divisor is 0, else the Integer of the quotient rounded toward zero.
DivisionReturns ==
    (pc = "done" /\ shape.family = "division")
        => /\ ~panicked(outcome)
           /\ IF shape.right = 0
                  THEN outcome.type = "ERROR"
                  ELSE outcome = Integer_new(TruncatedQuotient(shape.left, shape.right))

\* C29: each parameter of a parsed FunctionLiteral comes from an Ident
\* token; a text with another token where a parameter stands gives a parser
\* error and no function literal with that token among its parameters.
ParametersAreIdentifiers ==
    (pc = "parsed" /\ shape.family = "parameters")
        => \A k \in DOMAIN program.statements :
               (/\ program.statements[k].node = "ExpressionStatement"
                /\ program.statements[k].expression.node = "FunctionLiteral")
                   => \A i \in DOMAIN program.statements[k].expression.parameters :
                          program.statements[k].expression.parameters[i]
                              .token.token_type = "Ident"

\* C30: a function bound by let f = fn(...) { ... } finds itself under the
\* name f when it is called: a body that yields f yields that function,
\* with its parameter, whether the let is a statement of the program or of
\* the body of another function.
FunctionSeesItself ==
    (pc = "done" /\ shape.family = "recursion")
        => /\ outcome.type = "FUNCTION"
           /\ Len(outcome.parameters) = 1
           /\ outcome.parameters[1].value = "n"
====
